---- MODULE Spec2Model ----
(***************************************************************************)
(* hacktheconn: selection strategies (round-robin, fill-holes,             *)
(* least-response-time), the response-time calculators and the             *)
(* StrategyTransport dispatcher, as a state machine of concurrent callers. *)
(*                                                                         *)
(* A thread is one goroutine of the caller.  It is idle, or inside one     *)
(* call: StrategyTransport.RoundTrip (mode "dispatch"), or a direct call   *)
(* of strategy.Acquire, strategy.Release or of a least-response-time       *)
(* wrapper's RoundTrip (mode "direct").  Every statement that touches      *)
(* shared memory outside a mutex is a step of its own; a critical section  *)
(* is entered by a Lock step and left by an Unlock step.                   *)
(*                                                                         *)
(* Durations are time.Duration values, integer nanoseconds.                *)
(***************************************************************************)
EXTENDS Integers, Sequences, FiniteSets, TLC

\* ------------------------------------------------------------------ bounds
MaxHandles == 3
NThreads == 2
MaxOps == 6
MaxTimedOps == 4
MaxRequests == 3
MaxWindow == 2
MaxCalls == 4
MaxTestWindow == 3
MaxUpdates == 3
MaxWrappers == 2
MaxTicks == 3

Threads == 1..NThreads
NoThread == 0

\* Durations time.Since reports for an exchange: 50ms, 100ms, 150ms.
Samples == {50000000, 100000000, 150000000}

\* Weights of the weighted-average calculator, as <<numerator, denominator>>:
\* 0, 1/2, 3/4 (the default of TransportLeastResponseTime) and 1.  All are
\* dyadic, so the float64 arithmetic of the source is exact on them.
Weights == {<<0, 1>>, <<1, 2>>, <<3, 4>>, <<1, 1>>}

\* What a caller of a calculator alone feeds it, as the calculator tests do:
\* 0, 50ms, 100ms, 150ms, 200ms, 300ms, 400ms.
TestSamples == {0, 50000000, 100000000, 150000000, 200000000, 300000000, 400000000}

\* A float64 is <<numerator, denominator>>, and <<0, 0>> is NaN.  The weights a
\* caller constructs a weighted-average calculator with: -1/4, 0, 1/2, 3/4, 4/5
\* (the weight of the documentation and of the tests), 1, 5/4 and NaN.
NaN == <<0, 0>>
TestWeights == {<<-1, 4>>, <<0, 1>>, <<1, 2>>, <<3, 4>>, <<4, 5>>, <<1, 1>>, <<5, 4>>, NaN}

\* The window sizes a caller constructs a moving-average calculator with.
TestWindows == -1..MaxTestWindow

Kinds == {"rr", "fh", "lrt"}

\* ------------------------------------------------------------------ values
NoHandle == -1
ForeignHandle == MaxHandles

NoErr == "nil"
ErrNoTransports == "ErrNoTransports"
\* fmt.Errorf allocates a new error value on every call.
FillHolesEmptyErr == "fmt.Errorf(no transports available)"

Several == -1

NoResp == "nil"
Outcomes == {"response", "error", "cancelled", "panic"}

VARIABLES
    kind,           \* which strategy the StrategyTransport holds
    n,              \* len(transports)
    transports,     \* position -> transport identity
    lastSelected,   \* RoundRobinStrategy.lastSelected
    requestCounts,  \* FillHolesStrategy.requestCounts
    responseTime,   \* leastResponseTimeRoundTripper.responseTime, per position
    calc,           \* the state captured by the one calculator closure
    mutex,          \* the strategy's mutex: the thread holding it, or NoThread
    pc,             \* per thread: where it is
    loc,            \* per thread: locals of the call in progress
    nOps,           \* calls started so far
    req,            \* per thread: record of its dispatcher request in progress
    net,            \* per position: the Acquires that selected it minus the Releases
                    \* that resolved to it (round-robin, fill-holes)
    clamped,        \* per position: the Releases that resolved to it and found its
                    \* counter at 0
    build,          \* the constructor TransportRoundRobin, TransportFillHoles or
                    \* TransportLeastResponseTime in progress: its factory, its
                    \* descriptor list, its loop index and the transports made so far
    prior,          \* fill-holes: the counters as they were before the Acquire whose
                    \* increment was the last change of a counter, and the position
                    \* it selected; NoPrior when the last change was not an Acquire's
    calls,          \* the calls made of a calculator that stands alone, in order:
                    \* the duration passed and the value returned
    took,           \* per position: 0 while no duration measured on it has been fed
                    \* to the calculator, the duration once exactly one has, Several
                    \* afterwards
    least,          \* per thread inside Acquire: positions that held the least estimate
                    \* (lowest position among ties) at some moment of the call
    clock           \* the clocks: whether cfg.clock is an injected one, the reading
                    \* of time.Now and the reading of the injected clock, in ticks

config == <<kind, n, transports, clock>>
policy == <<lastSelected, requestCounts, responseTime, calc>>
vars == <<kind, n, transports, lastSelected, requestCounts, responseTime, calc,
          mutex, pc, loc, nOps, req, net, clamped,
          took, least, calls, build, prior, clock>>

Pos == 0..(n - 1)

\* Direct calls explored per run: fewer against a least-response-time strategy,
\* whose calls carry a measured duration each.
OpBudget == IF kind = "lrt" THEN MaxTimedOps ELSE MaxOps

\* ------------------------------------------------------------------ float64
\* The weighted average is evaluated in float64.  A natural number of any size
\* is a sequence of limbs, least significant first, without leading zeros; a
\* finite float64 >= 0 is [m, e], the number m * 2^e.
LimbBits == 15
Base == 2^LimbBits
MantissaBits == 53

RECURSIVE BNorm(_)
BNorm(a) ==
    IF a = <<>> THEN <<>>
    ELSE IF a[Len(a)] = 0 THEN BNorm(SubSeq(a, 1, Len(a) - 1)) ELSE a

RECURSIVE BFromInt(_)
BFromInt(x) == IF x = 0 THEN <<>> ELSE <<x % Base>> \o BFromInt(x \div Base)

RECURSIVE BToInt(_)
BToInt(a) == IF a = <<>> THEN 0 ELSE a[1] + Base * BToInt(Tail(a))

BHead(a) == IF a = <<>> THEN 0 ELSE a[1]
BTail(a) == IF a = <<>> THEN <<>> ELSE Tail(a)

RECURSIVE BAddC(_, _, _)
BAddC(a, b, carry) ==
    IF a = <<>> /\ b = <<>>
    THEN (IF carry = 0 THEN <<>> ELSE <<carry>>)
    ELSE LET s == BHead(a) + BHead(b) + carry
         IN  <<s % Base>> \o BAddC(BTail(a), BTail(b), s \div Base)

BAdd(a, b) == BAddC(a, b, 0)

\* a - b - borrow, for a >= b + borrow.
RECURSIVE BSubB(_, _, _)
BSubB(a, b, borrow) ==
    IF a = <<>> THEN <<>>
    ELSE LET s == BHead(a) - BHead(b) - borrow
         IN  IF s < 0
             THEN <<s + Base>> \o BSubB(BTail(a), BTail(b), 1)
             ELSE <<s>> \o BSubB(BTail(a), BTail(b), 0)

BSub(a, b) == BNorm(BSubB(a, b, 0))

\* a * k + carry, for k < Base.
RECURSIVE BMulSmall(_, _, _)
BMulSmall(a, k, carry) ==
    IF a = <<>>
    THEN (IF carry = 0 THEN <<>> ELSE <<carry>>)
    ELSE LET p == a[1] * k + carry
         IN  <<p % Base>> \o BMulSmall(Tail(a), k, p \div Base)

RECURSIVE BMulRaw(_, _)
BMulRaw(a, b) ==
    IF b = <<>> THEN <<>>
    ELSE BAdd(BMulSmall(a, b[1], 0), <<0>> \o BMulRaw(a, Tail(b)))

BMul(a, b) == BNorm(BMulRaw(a, b))

\* Quotient and remainder of a by k, for 0 < k < Base.
RECURSIVE BDivSmallRaw(_, _)
BDivSmallRaw(a, k) ==
    IF a = <<>> THEN [q |-> <<>>, r |-> 0]
    ELSE LET hi == BDivSmallRaw(Tail(a), k)
             cur == hi.r * Base + a[1]
         IN  [q |-> <<cur \div k>> \o hi.q, r |-> cur % k]

BDivSmall(a, k) ==
    LET x == BDivSmallRaw(a, k) IN [q |-> BNorm(x.q), r |-> x.r]

BShl(a, bits) ==
    IF a = <<>> THEN <<>>
    ELSE [i \in 1..(bits \div LimbBits) |-> 0] \o BMulSmall(a, 2^(bits % LimbBits), 0)

BShr(a, bits) ==
    IF Len(a) <= bits \div LimbBits THEN <<>>
    ELSE BDivSmall(SubSeq(a, (bits \div LimbBits) + 1, Len(a)), 2^(bits % LimbBits)).q

RECURSIVE BitsOf(_)
BitsOf(x) == IF x = 0 THEN 0 ELSE 1 + BitsOf(x \div 2)

BBitLen(a) == IF a = <<>> THEN 0 ELSE LimbBits * (Len(a) - 1) + BitsOf(a[Len(a)])

\* -1, 0 or 1 as a < b, a = b or a > b.
RECURSIVE BCmp(_, _)
BCmp(a, b) ==
    IF Len(a) # Len(b) THEN (IF Len(a) < Len(b) THEN -1 ELSE 1)
    ELSE IF a = <<>> THEN 0
    ELSE IF a[Len(a)] # b[Len(b)] THEN (IF a[Len(a)] < b[Len(b)] THEN -1 ELSE 1)
    ELSE BCmp(SubSeq(a, 1, Len(a) - 1), SubSeq(b, 1, Len(b) - 1))

BIsOdd(a) == a # <<>> /\ a[1] % 2 = 1

\* m * 2^e rounded to the nearest float64, ties to even.
Round53(m, e) ==
    IF BBitLen(m) <= MantissaBits THEN [m |-> m, e |-> e]
    ELSE LET s == BBitLen(m) - MantissaBits
             q == BShr(m, s)
             r == BSub(m, BShl(q, s))
             c == BCmp(r, BShl(<<1>>, s - 1))
             up == c = 1 \/ (c = 0 /\ BIsOdd(q))
         IN  [m |-> IF up THEN BAdd(q, <<1>>) ELSE q, e |-> e + s]

FFromInt(x) == [m |-> BFromInt(x), e |-> 0]

\* The exact product and the exact sum of two float64 values.
FProd(x, y) == [m |-> BMul(x.m, y.m), e |-> x.e + y.e]
FSum(x, y) ==
    LET e == IF x.e < y.e THEN x.e ELSE y.e
    IN  [m |-> BAdd(BShl(x.m, x.e - e), BShl(y.m, y.e - e)), e |-> e]

\* x * y, x + y and the fused x * y + z, each rounded once.
FMul(x, y) == Round53(FProd(x, y).m, FProd(x, y).e)
FAdd(x, y) == Round53(FSum(x, y).m, FSum(x, y).e)
FFma(x, y, z) == Round53(FSum(FProd(x, y), z).m, FSum(FProd(x, y), z).e)

\* Faulty variant: the factor of the previous estimate is 1 whatever the weight.
FOneWhateverWeight(w) == FFromInt(1)

\* 1 - w, for 0 <= w <= 1.
FOneMinus(w) ==
    IF w.m = <<>> THEN FFromInt(1)
    ELSE Round53(BSub(BShl(<<1>>, 0 - w.e), w.m), w.e)

\* The float64 nearest to num/den, for 0 <= num <= den < Base: the quotient to
\* 64 binary places and one more bit that tells whether it is exact.
FOfRat(num, den) ==
    LET x == BDivSmall(BShl(BFromInt(num), 64), den)
    IN  Round53(BAdd(BMulSmall(x.q, 2, 0), BFromInt(IF x.r = 0 THEN 0 ELSE 1)), -65)

\* time.Duration(x): the conversion to int64 truncates.
FTrunc(x) == BToInt(IF x.e >= 0 THEN BShl(x.m, x.e) ELSE BShr(x.m, 0 - x.e))

\* weight*float64(d) + (1-weight)*float64(prev), converted to time.Duration.
\* The compiler may fuse either product with the addition (as on arm64) or
\* neither (as on amd64).
Float64WeightedResults(wnum, wden, d, prev) ==
    LET w == FOfRat(wnum, wden)
        v == FOneMinus(w)
        a == FMul(w, FFromInt(d))
        b == FMul(v, FFromInt(prev))
    IN  {FTrunc(FAdd(a, b)),
         FTrunc(FFma(w, FFromInt(d), b)),
         FTrunc(FFma(v, FFromInt(prev), a))}

\* ------------------------------------------------------------- calculators
LastValueCalc ==
    [type |-> "last", window |-> 0, wnum |-> 0, wden |-> 1,
     buffer |-> <<>>, index |-> 0, count |-> 0, sum |-> 0, prev |-> 0]

MovingAverageCalc(windowSize) ==
    [type |-> "moving", window |-> windowSize, wnum |-> 0, wden |-> 1,
     buffer |-> [i \in 0..(windowSize - 1) |-> 0],
     index |-> 0, count |-> 0, sum |-> 0, prev |-> 0]

WeightedAverageCalc(w) ==
    [type |-> "weighted", window |-> 0, wnum |-> w[1], wden |-> w[2],
     buffer |-> <<>>, index |-> 0, count |-> 0, sum |-> 0, prev |-> 0]

Calculators ==
    {LastValueCalc}
        \cup {MovingAverageCalc(w) : w \in 1..MaxWindow}
        \cup {WeightedAverageCalc(w) : w \in Weights}

\* Faulty variant: the sample overwritten in the buffer stays in the sum.
MovingAverageKeepingOverwritten(c, d) ==
    [c EXCEPT !.buffer = [c.buffer EXCEPT ![c.index] = d],
              !.sum = c.sum + d,
              !.index = (c.index + 1) % c.window,
              !.count = IF c.count < c.window THEN c.count + 1 ELSE c.count]

\* One call of the moving-average closure: the captured state afterwards.
MovingAverageStep(c, d) ==
    LET sum1 == c.sum - c.buffer[c.index]
    IN  [c EXCEPT !.buffer = [c.buffer EXCEPT ![c.index] = d],
                  !.sum = sum1 + d,
                  !.index = (c.index + 1) % c.window,
                  !.count = IF c.count < c.window THEN c.count + 1 ELSE c.count]

\* One call of the weighted-average closure: the captured state afterwards.
WeightedAverageStep(c, d) ==
    IF c.prev = 0
    THEN [c EXCEPT !.prev = d]
    ELSE [c EXCEPT !.prev = (c.wnum * d + (c.wden - c.wnum) * c.prev) \div c.wden]

\* One call calculator(d): the captured state afterwards and the value returned.
CalcCall(c, d) ==
    CASE c.type = "last" -> [state |-> c, result |-> d]
      [] c.type = "moving" ->
            LET c1 == MovingAverageStep(c, d)
            IN  [state |-> c1, result |-> c1.sum \div c1.count]
      [] c.type = "weighted" ->
            LET c1 == WeightedAverageStep(c, d)
            IN  [state |-> c1, result |-> c1.prev]

\* No calculator constructed yet.
NoCalc ==
    [type |-> "none", window |-> 0, wnum |-> 0, wden |-> 1,
     buffer |-> <<>>, index |-> 0, count |-> 0, sum |-> 0, prev |-> 0]

PanicWindowSize == "panic: windowSize must be greater than 0"
PanicWeight == "panic: weight must be between 0 and 1"

\* x < k and x > k on float64 x and an integer k: false when x is NaN.
Float64Less(x, k) == x[2] # 0 /\ x[1] < k * x[2]
Float64Greater(x, k) == x[2] # 0 /\ x[1] > k * x[2]

\* The constructors: the captured state of the closure returned, or the panic.
LeastResponseTimeMovingAverageCalculator(windowSize) ==
    IF windowSize <= 0
    THEN [NoCalc EXCEPT !.type = PanicWindowSize, !.window = windowSize]
    ELSE MovingAverageCalc(windowSize)

LeastResponseTimeWeightedAverageCalculator(weight) ==
    IF Float64Less(weight, 0) \/ Float64Greater(weight, 1)
    THEN [NoCalc EXCEPT !.type = PanicWeight, !.wnum = weight[1], !.wden = weight[2]]
    ELSE WeightedAverageCalc(weight)

IsDyadic(k) == k \in {1, 2, 4, 8}

\* Faulty variant: the weight is applied to the previous estimate and 1-weight
\* to the sample.
WeightedAverageWeighingPrior(c, d) ==
    IF c.prev = 0 THEN {d}
    ELSE Float64WeightedResults(c.wden - c.wnum, c.wden, d, c.prev)

\* The values one call of the weighted-average closure can leave in
\* previousResponseTime.  With a dyadic weight every float64 operation is exact.
WeightedAverageResults(c, d) ==
    IF c.prev = 0 \/ IsDyadic(c.wden)
    THEN {WeightedAverageStep(c, d).prev}
    ELSE Float64WeightedResults(c.wnum, c.wden, d, c.prev)

\* One call calculator(d), as a set: the float64 expression of the weighted
\* average has more than one permitted evaluation.
CalcOutcomes(c, d) ==
    IF c.type = "weighted"
    THEN {[state |-> [c EXCEPT !.prev = r], result |-> r] :
              r \in WeightedAverageResults(c, d)}
    ELSE {CalcCall(c, d)}

\* ------------------------------------------------------------ thread state
NoPrior == [counts |-> <<>>, idx |-> NoHandle]

\* clock: time.Now (the default of TransportLeastResponseTime).
SystemClock == [injected |-> FALSE, wall |-> 0, fake |-> 0]
\* clock: a function of the caller's (OptLeastResponseTimeWithClock), whose
\* readings the caller advances.
InjectedClock == [injected |-> TRUE, wall |-> 0, fake |-> 0]
\* One tick of the clocks is 50ms.
TickNs == 50000000

\* l.clock()
ClockNow == IF clock.injected THEN clock.fake ELSE clock.wall
\* time.Since(start): time.Now().Sub(start)
TimeSince(start) == (clock.wall - start) * TickNs

\* No constructor in progress: the strategy and its dispatcher exist.
Built ==
    [phase |-> "done", factory |-> "none", proxies |-> <<>>, i |-> 0, tried |-> <<>>,
     made |-> <<>>]
Constructed == build.phase = "done"

LocInit ==
    [mode |-> "none", h |-> NoHandle, idx |-> NoHandle, i |-> 0, cur |-> NoHandle,
     minIndex |-> 0, minTime |-> 0, est |-> 0, once |-> FALSE, stored |-> FALSE,
     resp |-> NoResp, err |-> NoErr, panicked |-> FALSE, d |-> 0, tmp |-> 0, start |-> 0]

ReqInit ==
    [active |-> FALSE, handle |-> NoHandle, acqErr |-> NoErr,
     nAcq |-> 0, nExch |-> 0, exchOn |-> NoHandle, exchEnded |-> FALSE,
     exchResp |-> NoResp, exchErr |-> NoErr, exchPanic |-> FALSE,
     nRel |-> 0, relHandle |-> NoHandle, relInOrder |-> FALSE]

\* Handle lists over k positions, up to renaming of the transports: position 0
\* holds transport 0 and each position holds an earlier transport again or the
\* next new one.  A list given to NewFillHolesStrategy may repeat a transport.
RECURSIVE HandleLists(_)
HandleLists(k) ==
    IF k = 0 THEN {<<>>}
    ELSE {Append(s, v) : s \in HandleLists(k - 1),
                         v \in 0..(k - 1)}

MaxOf(S) == CHOOSE x \in S : \A y \in S : y <= x

Canonical(s) ==
    \A j \in 1..Len(s) :
        s[j] <= (IF j = 1 THEN 0 ELSE MaxOf({s[m] : m \in 1..(j - 1)}) + 1)

Distinct(k) == [i \in 0..(k - 1) |-> i]

TransportLists(kd, k) ==
    IF kd = "fh"
    THEN {[i \in 0..(k - 1) |-> s[i + 1]] : s \in {x \in HandleLists(k) : Canonical(x)}}
    ELSE {Distinct(k)}

InitOn(kinds, clocks) ==
    /\ kind \in kinds
    /\ clock \in clocks
    /\ n \in 0..MaxHandles
    /\ transports \in TransportLists(kind, n)
    /\ lastSelected = -1
    /\ requestCounts = [i \in Pos |-> 0]
    /\ responseTime = [i \in Pos |-> 0]
    /\ calc \in (IF kind = "lrt" THEN Calculators ELSE {LastValueCalc})
    /\ mutex = NoThread
    /\ pc = [t \in Threads |-> "idle"]
    /\ loc = [t \in Threads |-> LocInit]
    /\ nOps = 0
    /\ req = [t \in Threads |-> ReqInit]
    /\ net = [i \in Pos |-> 0]
    /\ clamped = [i \in Pos |-> 0]
    /\ took = [i \in Pos |-> 0]
    /\ least = [t \in Threads |-> {}]
    /\ calls = <<>>
    /\ build = Built
    /\ prior = NoPrior

InitOf(kinds) == InitOn(kinds, {SystemClock})

\* ---------------------------------------------------------- faulty variants
\* Departures from the source, one per function below: a property that is said
\* to hold of the source has to fail on the departure.

\* A cursor that advances by two.
RRAdvanceByTwo(last, len) == (last + 2) % len

\* A scan that replaces the held position on a smaller or equal value, and so
\* ends on the last minimum.
FHLastMinIndex(counts, len) ==
    CHOOSE i \in 0..(len - 1) :
        \A j \in 0..(len - 1) :
            counts[i] <= counts[j] /\ (counts[j] = counts[i] => j <= i)

\* An Acquire that counts the selected handle twice.
FHAcquireCountTwice(c) == c + 2

\* A Release without the clamp.
FHReleaseCountNoClamp(c) == c - 1

\* A Lock that never waits.
MutexIgnored(m) == TRUE

\* A dispatcher that goes on to the exchange whatever Acquire returned.
DispatchIgnoringAcquireError(err) == "inflight"

\* A dispatcher whose Release is a plain statement after the exchange, not a
\* deferred call: a panic of the exchange unwinds past it.
DispatchReleaseNotDeferred(panicked) == IF panicked THEN "disp_return" ELSE "rel_call"

\* A Release that takes a transport it does not find for the first of the list.
FHFindIndexOrFirst(list, len, h) ==
    IF \E i \in 0..(len - 1) : list[i] = h
    THEN CHOOSE i \in 0..(len - 1) :
            /\ list[i] = h
            /\ \A j \in 0..(len - 1) : list[j] = h => i <= j
    ELSE IF len = 0 THEN NoHandle ELSE 0

\* A dispatcher that starts over with a new Acquire after the exchange.
DispatchRetrying(panicked) == "acq_call"

\* ------------------------------------------------------- strategy functions
\* sync.Mutex.Lock returns once no goroutine holds the mutex.
MutexFree(m) == m = NoThread

\* RoundRobinStrategy.Acquire: the cursor after one advance.
RRAdvance(last, len) == (last + 1) % len

\* The scan of FillHolesStrategy.Acquire and LeastResponseTimeStrategy.Acquire
\* over positions i..len-1, holding (minIndex, minValue): a position replaces
\* the held one only when its value is strictly smaller.
RECURSIVE ScanMin(_, _, _, _, _)
ScanMin(vals, len, i, minIndex, minValue) ==
    IF i >= len THEN minIndex
    ELSE IF vals[i] < minValue
         THEN ScanMin(vals, len, i + 1, i, vals[i])
         ELSE ScanMin(vals, len, i + 1, minIndex, minValue)

\* FillHolesStrategy.Acquire: the position the scan ends on.
FHMinIndex(counts, len) == ScanMin(counts, len, 0, 0, counts[0])

\* FillHolesStrategy.Acquire: the selected counter after the increment.
FHAcquireCount(c) == c + 1

\* FillHolesStrategy.Release: the matched counter after the decrement and clamp.
FHReleaseCount(c) == IF c - 1 < 0 THEN 0 ELSE c - 1

\* FillHolesStrategy.Release: the first position holding the transport, if any.
FHFindIndex(list, len, h) ==
    IF \E i \in 0..(len - 1) : list[i] = h
    THEN CHOOSE i \in 0..(len - 1) :
            /\ list[i] = h
            /\ \A j \in 0..(len - 1) : list[j] = h => i <= j
    ELSE NoHandle

\* The error Acquire returns on an empty list, per strategy.
EmptyErr(kd) == IF kd = "fh" THEN FillHolesEmptyErr ELSE ErrNoTransports

\* StrategyTransport.RoundTrip after Acquire returned err: it returns (nil, err),
\* or defers the Release and calls the handle's RoundTrip.
DispatchAfterAcquire(err) == IF err # NoErr THEN "disp_return" ELSE "inflight"

\* StrategyTransport.RoundTrip after the exchange ended: the deferred Release
\* runs on a return and on a panic alike.
DispatchAfterExchange(panicked) == "rel_call"

\* What one exchange hands back: <<response, error, panicked>>.
ExchangeResult(o) ==
    CASE o = "response" -> <<"response", NoErr, FALSE>>
      [] o = "error" -> <<NoResp, "transport error", FALSE>>
      [] o = "cancelled" -> <<NoResp, "context canceled", FALSE>>
      [] o = "panic" -> <<NoResp, NoErr, TRUE>>

\* ------------------------------------------------------------------ ghosts
RECURSIVE SumTo(_, _)
SumTo(f, k) == IF k < 0 THEN 0 ELSE f[k] + SumTo(f, k - 1)
Total(f) == SumTo(f, n - 1)

FirstLeast(f) ==
    CHOOSE i \in Pos : \A j \in Pos : f[i] <= f[j] /\ (f[j] = f[i] => i <= j)

InAcquire(t) ==
    pc[t] \in {"acq_call", "acq_body", "rr_write", "fh_incr", "lrt_init", "lrt_loop",
              "acq_unlock"}

\* Position j is the first position of the list that holds transport h.
FirstHolder(j, h) ==
    /\ transports[j] = h
    /\ \A m \in Pos : transports[m] = h => j <= m

HandleValues == {transports[i] : i \in Pos}

\* Every position has completed exactly one exchange, its estimate stored.
MeasuredOnce ==
    /\ \A i \in Pos : took[i] \in Samples
    /\ \A u \in Threads : pc[u] # "wrap_store"

LeastNow == IF kind = "lrt" /\ n # 0 THEN {FirstLeast(responseTime)} ELSE {}

\* ----------------------------------------------------------- caller's calls
\* http.Client calls StrategyTransport.RoundTrip.
StartDispatch(t) ==
    /\ Constructed
    /\ pc[t] = "idle" /\ nOps < MaxRequests
    /\ nOps' = nOps + 1
    /\ pc' = [pc EXCEPT ![t] = "acq_call"]
    /\ loc' = [loc EXCEPT ![t] = [LocInit EXCEPT !.mode = "dispatch", !.once = MeasuredOnce]]
    /\ req' = [req EXCEPT ![t] = [ReqInit EXCEPT !.active = TRUE]]
    /\ least' = [least EXCEPT ![t] = LeastNow]
    /\ UNCHANGED <<config, calls, build, prior, policy, mutex, net, clamped, took>>

\* A caller calls strategy.Acquire itself.
StartAcquire(t) ==
    /\ Constructed
    /\ pc[t] = "idle" /\ nOps < OpBudget
    /\ nOps' = nOps + 1
    /\ pc' = [pc EXCEPT ![t] = "acq_call"]
    /\ loc' = [loc EXCEPT ![t] = [LocInit EXCEPT !.mode = "direct", !.once = MeasuredOnce]]
    /\ least' = [least EXCEPT ![t] = LeastNow]
    /\ UNCHANGED <<config, calls, build, prior, policy, mutex, req, net, clamped, took>>

\* A caller calls strategy.Release(h) itself, with a handle of the list or not.
StartRelease(t, h) ==
    /\ Constructed
    /\ pc[t] = "idle" /\ nOps < OpBudget
    /\ nOps' = nOps + 1
    /\ pc' = [pc EXCEPT ![t] = "rel_call"]
    /\ loc' = [loc EXCEPT ![t] = [LocInit EXCEPT !.mode = "direct", !.h = h]]
    /\ UNCHANGED <<config, calls, build, prior, policy, mutex, req, net, clamped, took, least>>

\* A caller calls RoundTrip on the wrapper at position i itself (as the
\* strategy's test does): `start := l.clock()`, and the wrapped transport's
\* RoundTrip is under way.
StartExchange(t, i) ==
    /\ pc[t] = "idle" /\ nOps < OpBudget
    /\ kind = "lrt"
    /\ nOps' = nOps + 1
    /\ pc' = [pc EXCEPT ![t] = "inflight"]
    /\ loc' = [loc EXCEPT ![t] = [LocInit EXCEPT !.mode = "direct", !.h = i, !.idx = i,
                                                 !.start = ClockNow]]
    /\ UNCHANGED <<config, calls, build, prior, policy, mutex, req, net, clamped, took, least>>

\* ----------------------------------------------------------------- Acquire
\* Acquire returns (h, err) to its caller: a direct caller is done, the
\* dispatcher goes on.
FinishAcquire(t, i, h, err) ==
    IF loc[t].mode = "direct"
    THEN /\ pc' = [pc EXCEPT ![t] = "idle"]
         /\ loc' = [loc EXCEPT ![t] = LocInit]
         /\ req' = req
    ELSE /\ pc' = [pc EXCEPT ![t] = DispatchAfterAcquire(err)]
         /\ loc' = [loc EXCEPT ![t] = [LocInit EXCEPT !.mode = "dispatch", !.h = h,
                                                      !.idx = i, !.err = err,
                                                      !.start = ClockNow]]
         /\ req' = IF DispatchAfterAcquire(err) = "inflight"
                   THEN [req EXCEPT ![t].handle = h, ![t].acqErr = err, ![t].nAcq = @ + 1,
                                    ![t].nExch = @ + 1, ![t].exchOn = h]
                   ELSE [req EXCEPT ![t].handle = h, ![t].acqErr = err, ![t].nAcq = @ + 1]

\* len(transports) == 0: return nil, <error>, before the mutex is touched.
AcquireEmpty(t) ==
    /\ pc[t] = "acq_call" /\ n = 0
    /\ FinishAcquire(t, NoHandle, NoHandle, EmptyErr(kind))
    /\ UNCHANGED <<config, calls, build, prior, policy, mutex, nOps, net, clamped, took, least>>

\* len(transports) # 0, then mutex.Lock()
AcquireLock(t) ==
    /\ pc[t] = "acq_call" /\ n # 0
    /\ MutexFree(mutex)
    /\ mutex' = t
    /\ pc' = [pc EXCEPT ![t] = IF kind = "lrt" THEN "lrt_init" ELSE "acq_body"]
    /\ UNCHANGED <<config, calls, build, prior, policy, loc, nOps, req, net, clamped, took, least>>

\* The read of rr.lastSelected on the right of the assignment.
RRAcquireRead(t) ==
    /\ pc[t] = "acq_body" /\ kind = "rr"
    /\ loc' = [loc EXCEPT ![t].cur = lastSelected]
    /\ pc' = [pc EXCEPT ![t] = "rr_write"]
    /\ UNCHANGED <<config, calls, build, prior, policy, mutex, nOps, req, net, clamped, took, least>>

\* rr.lastSelected = <the advanced cursor>; return rr.transports[rr.lastSelected]
RRAcquireBody(t) ==
    /\ pc[t] = "rr_write"
    /\ lastSelected' = RRAdvance(loc[t].cur, n)
    /\ loc' = [loc EXCEPT ![t].idx = lastSelected', ![t].h = transports[lastSelected']]
    /\ net' = [net EXCEPT ![lastSelected'] = @ + 1]
    /\ pc' = [pc EXCEPT ![t] = "acq_unlock"]
    /\ UNCHANGED <<config, calls, build, prior, requestCounts, responseTime, calc, mutex, nOps, req,
                   clamped, took, least>>

\* The scan over fh.requestCounts.
FHAcquireScan(t) ==
    /\ pc[t] = "acq_body" /\ kind = "fh"
    /\ loc' = [loc EXCEPT ![t].minIndex = FHMinIndex(requestCounts, n)]
    /\ pc' = [pc EXCEPT ![t] = "fh_incr"]
    /\ UNCHANGED <<config, calls, build, prior, policy, mutex, nOps, req, net, clamped, took, least>>

\* fh.requestCounts[minIndex]++; return fh.transports[minIndex]
FHAcquireBody(t) ==
    /\ pc[t] = "fh_incr"
    /\ LET m == loc[t].minIndex
       IN  /\ requestCounts' = [requestCounts EXCEPT ![m] = FHAcquireCount(@)]
           /\ loc' = [loc EXCEPT ![t].idx = m, ![t].h = transports[m]]
           /\ net' = [net EXCEPT ![m] = @ + 1]
           /\ prior' = [counts |-> requestCounts, idx |-> m]
    /\ pc' = [pc EXCEPT ![t] = "acq_unlock"]
    /\ UNCHANGED <<config, calls, build, lastSelected, responseTime, calc, mutex, nOps, req,
                   clamped, took, least>>

\* minIndex := 0; minTime := lr.transports[0].responseTime
LRTScanInit(t) ==
    /\ pc[t] = "lrt_init"
    /\ loc' = [loc EXCEPT ![t].minIndex = 0, ![t].minTime = responseTime[0], ![t].i = 0]
    /\ pc' = [pc EXCEPT ![t] = "lrt_loop"]
    /\ UNCHANGED <<config, calls, build, prior, policy, mutex, nOps, req, net, clamped, took, least>>

\* Faulty variant: a scan that replaces the held position on a smaller or equal
\* estimate.
LRTScanStepOrEqual(t) ==
    /\ pc[t] = "lrt_loop"
    /\ LET i == loc[t].i
           smaller == responseTime[i] <= loc[t].minTime
           m == IF smaller THEN i ELSE loc[t].minIndex
       IN  IF i + 1 < n
           THEN /\ loc' = [loc EXCEPT ![t].i = i + 1, ![t].minIndex = m,
                                      ![t].minTime = IF smaller THEN responseTime[i] ELSE @]
                /\ pc' = pc
           ELSE /\ loc' = [loc EXCEPT ![t].i = i + 1, ![t].minIndex = m,
                                      ![t].minTime = IF smaller THEN responseTime[i] ELSE @,
                                      ![t].idx = m, ![t].h = m]
                /\ pc' = [pc EXCEPT ![t] = "acq_unlock"]
    /\ UNCHANGED <<config, calls, build, prior, policy, mutex, nOps, req, net, clamped, took, least>>

\* One iteration of the range loop: one read of transports[i].responseTime.
LRTScanStep(t) ==
    /\ pc[t] = "lrt_loop"
    /\ LET i == loc[t].i
           smaller == responseTime[i] < loc[t].minTime
           m == IF smaller THEN i ELSE loc[t].minIndex
       IN  IF i + 1 < n
           THEN /\ loc' = [loc EXCEPT ![t].i = i + 1, ![t].minIndex = m,
                                      ![t].minTime = IF smaller THEN responseTime[i] ELSE @]
                /\ pc' = pc
           ELSE /\ loc' = [loc EXCEPT ![t].i = i + 1, ![t].minIndex = m,
                                      ![t].minTime = IF smaller THEN responseTime[i] ELSE @,
                                      ![t].idx = m, ![t].h = m]
                /\ pc' = [pc EXCEPT ![t] = "acq_unlock"]
    /\ UNCHANGED <<config, calls, build, prior, policy, mutex, nOps, req, net, clamped, took, least>>

\* Faulty variant: an Acquire that returns with the mutex still locked.
AcquireKeepingLock(t) ==
    /\ pc[t] = "acq_unlock"
    /\ mutex' = mutex
    /\ FinishAcquire(t, loc[t].idx, loc[t].h, NoErr)
    /\ least' = [least EXCEPT ![t] = {}]
    /\ UNCHANGED <<config, calls, build, prior, policy, nOps, net, clamped, took>>

\* The return statement and the deferred mutex.Unlock().
AcquireUnlock(t) ==
    /\ pc[t] = "acq_unlock"
    /\ mutex' = NoThread
    /\ FinishAcquire(t, loc[t].idx, loc[t].h, NoErr)
    /\ least' = [least EXCEPT ![t] = {}]
    /\ UNCHANGED <<config, calls, build, prior, policy, nOps, net, clamped, took>>

\* ---------------------------------------------------------------- exchange
\* The handle's RoundTrip has ended with <<resp, err, panicked>>: a direct
\* caller is done, the dispatcher goes on to its deferred Release.
FinishExchangeFrom(base, t, r) ==
    IF loc[t].mode = "direct"
    THEN /\ pc' = [pc EXCEPT ![t] = "idle"]
         /\ loc' = [base EXCEPT ![t] = LocInit]
         /\ req' = req
    ELSE /\ pc' = [pc EXCEPT ![t] = DispatchAfterExchange(r[3])]
         /\ loc' = [base EXCEPT ![t].resp = r[1], ![t].err = r[2], ![t].panicked = r[3],
                                ![t].est = 0]
         /\ req' = [req EXCEPT ![t].exchEnded = TRUE, ![t].exchResp = r[1],
                               ![t].exchErr = r[2], ![t].exchPanic = r[3]]

FinishExchange(t, r) == FinishExchangeFrom(loc, t, r)

\* The locals of the threads, with the Acquires in progress other than t's
\* marked as having had an estimate stored during the call.
StoreNoted(t) ==
    [u \in Threads |->
        IF u # t /\ InAcquire(u) THEN [loc[u] EXCEPT !.stored = TRUE] ELSE loc[u]]

\* The exchange on a plain transport (round-robin, fill-holes) ends.
PlainExchangeEnd(t, o) ==
    /\ pc[t] = "inflight" /\ kind # "lrt"
    /\ FinishExchange(t, ExchangeResult(o))
    /\ UNCHANGED <<config, calls, build, prior, policy, mutex, nOps, net, clamped, took, least>>

\* The wrapped transport's RoundTrip panics: the wrapper's update is skipped.
WrappedExchangePanic(t) ==
    /\ pc[t] = "inflight" /\ kind = "lrt"
    /\ FinishExchange(t, ExchangeResult("panic"))
    /\ UNCHANGED <<config, calls, build, prior, policy, mutex, nOps, net, clamped, took, least>>

\* The wrapped transport's RoundTrip returns after d nanoseconds: the wrapper
\* calls l.responseTimeCalculator(time.Since(start)), the closure every wrapper
\* of the strategy shares.
WrappedExchangeEnd(t, o, d) ==
    /\ pc[t] = "inflight" /\ kind = "lrt" /\ o # "panic"
    /\ LET r == CalcCall(calc, d)
       IN  /\ calc' = r.state
           /\ loc' = IF loc[t].mode = "direct"
                     THEN [loc EXCEPT ![t].est = r.result]
                     ELSE [loc EXCEPT ![t].est = r.result,
                                      ![t].resp = ExchangeResult(o)[1],
                                      ![t].err = ExchangeResult(o)[2]]
    /\ took' = [took EXCEPT ![loc[t].idx] = IF @ = 0 THEN d ELSE Several]
    /\ pc' = [pc EXCEPT ![t] = "wrap_store"]
    /\ UNCHANGED <<config, calls, build, prior, lastSelected, requestCounts, responseTime, mutex, nOps, req,
                   net, clamped, least>>

\* l.responseTime = <the calculator's result>; return res, err
WrapStore(t) ==
    /\ pc[t] = "wrap_store"
    /\ responseTime' = [responseTime EXCEPT ![loc[t].idx] = loc[t].est]
    /\ least' = [u \in Threads |->
                    IF u # t /\ InAcquire(u)
                    THEN least[u] \cup {FirstLeast(responseTime')}
                    ELSE least[u]]
    /\ FinishExchangeFrom(StoreNoted(t), t, <<loc[t].resp, loc[t].err, FALSE>>)
    /\ UNCHANGED <<config, calls, build, prior, lastSelected, requestCounts, calc, mutex, nOps,
                   net, clamped, took>>

\* ----------------------------------------------------------------- Release
\* Release returns: a direct caller is done, the dispatcher returns its result.
FinishRelease(t) ==
    IF loc[t].mode = "direct"
    THEN /\ pc' = [pc EXCEPT ![t] = "idle"]
         /\ loc' = [loc EXCEPT ![t] = LocInit]
    ELSE /\ pc' = [pc EXCEPT ![t] = "disp_return"]
         /\ loc' = loc

\* The dispatcher's record of the Release call being made.
NoteRelease(t) ==
    IF loc[t].mode = "dispatch"
    THEN [req EXCEPT ![t].nRel = @ + 1, ![t].relHandle = loc[t].h,
                     ![t].relInOrder = req[t].exchEnded /\ pc[t] # "disp_return"]
    ELSE req

\* Faulty variant: a Release that forgets the estimate of the released handle.
ReleaseResettingEstimate(t) ==
    /\ pc[t] = "rel_call" /\ kind # "fh"
    /\ req' = NoteRelease(t)
    /\ FinishRelease(t)
    /\ responseTime' = [i \in Pos |-> IF i = loc[t].h THEN 0 ELSE responseTime[i]]
    /\ UNCHANGED <<config, calls, build, prior, lastSelected, requestCounts, calc, mutex, nOps, net, clamped,
                   took, least>>

\* Faulty variant: a Release that moves the round-robin cursor back.
ReleaseRewindingCursor(t) ==
    /\ pc[t] = "rel_call" /\ kind # "fh"
    /\ req' = NoteRelease(t)
    /\ FinishRelease(t)
    /\ lastSelected' = -1
    /\ UNCHANGED <<config, calls, build, prior, requestCounts, responseTime, calc, mutex, nOps, net, clamped,
                   took, least>>

\* RoundRobinStrategy.Release and LeastResponseTimeStrategy.Release: empty bodies.
ReleaseNoop(t) ==
    /\ pc[t] = "rel_call" /\ kind # "fh"
    /\ req' = NoteRelease(t)
    /\ FinishRelease(t)
    /\ UNCHANGED <<config, calls, build, prior, policy, mutex, nOps, net, clamped, took, least>>

\* FillHolesStrategy.Release: mutex.Lock()
FHReleaseLock(t) ==
    /\ pc[t] = "rel_call" /\ kind = "fh" /\ MutexFree(mutex)
    /\ mutex' = t
    /\ req' = NoteRelease(t)
    /\ pc' = [pc EXCEPT ![t] = "rel_body"]
    /\ UNCHANGED <<config, calls, build, prior, policy, loc, nOps, net, clamped, took, least>>

\* FillHolesStrategy.Release: the loop over the transports.
FHReleaseBody(t) ==
    /\ pc[t] = "rel_body"
    /\ LET i == FHFindIndex(transports, n, loc[t].h)
       IN  /\ requestCounts' = IF i = NoHandle THEN requestCounts
                               ELSE [requestCounts EXCEPT ![i] = FHReleaseCount(@)]
           /\ net' = [j \in Pos |-> IF FirstHolder(j, loc[t].h)
                                    THEN net[j] - 1 ELSE net[j]]
           /\ clamped' = [j \in Pos |-> IF FirstHolder(j, loc[t].h) /\ requestCounts[j] = 0
                                        THEN clamped[j] + 1 ELSE clamped[j]]
    /\ prior' = NoPrior
    /\ pc' = [pc EXCEPT ![t] = "rel_unlock"]
    /\ UNCHANGED <<config, calls, build, lastSelected, responseTime, calc, mutex, loc, nOps, req,
                   took, least>>

\* FillHolesStrategy.Release: the deferred mutex.Unlock() and the return.
FHReleaseUnlock(t) ==
    /\ pc[t] = "rel_unlock"
    /\ mutex' = NoThread
    /\ FinishRelease(t)
    /\ UNCHANGED <<config, calls, build, prior, policy, nOps, req, net, clamped, took, least>>

\* -------------------------------------------------------------- dispatcher
\* StrategyTransport.RoundTrip hands its result (or the panic) to its caller.
DispatchReturn(t) ==
    /\ pc[t] = "disp_return"
    /\ req' = [req EXCEPT ![t] = ReqInit]
    /\ pc' = [pc EXCEPT ![t] = "idle"]
    /\ loc' = [loc EXCEPT ![t] = LocInit]
    /\ UNCHANGED <<config, calls, build, prior, policy, mutex, nOps, net, clamped, took, least>>

\* ------------------------------------- the moving-average closure, unlocked
\* The wrapper calls the closure outside every lock, so the statements of two
\* calls interleave; each statement that updates a captured variable is a
\* read of its operands followed by the write.
MovingAverageFrame ==
    UNCHANGED <<config, build, prior, lastSelected, requestCounts, responseTime, mutex,
                nOps, req, net, clamped, least>>

InUpdate(t) ==
    pc[t] \in {"ma_sub", "ma_sub_w", "ma_put", "ma_add", "ma_add_w", "ma_idx", "ma_idx_w",
               "ma_cnt", "ma_cnt_w", "ma_ret"}

\* The wrapped transport's RoundTrip returns after d nanoseconds and the
\* wrapper calls l.responseTimeCalculator(time.Since(start)).
MovingAverageEnter(t, d) ==
    /\ pc[t] = "inflight" /\ kind = "lrt" /\ calc.type = "moving"
    /\ loc' = [loc EXCEPT ![t].d = d]
    /\ took' = [took EXCEPT ![loc[t].idx] = IF @ = 0 THEN d ELSE Several]
    /\ pc' = [pc EXCEPT ![t] = "ma_sub"]
    /\ UNCHANGED <<calc, calls>>
    /\ MovingAverageFrame

\* sum -= buffer[index]
MovingAverageSub(t) ==
    /\ \/ /\ pc[t] = "ma_sub"
          /\ loc' = [loc EXCEPT ![t].tmp = calc.sum - calc.buffer[calc.index]]
          /\ pc' = [pc EXCEPT ![t] = "ma_sub_w"]
          /\ calc' = calc
       \/ /\ pc[t] = "ma_sub_w"
          /\ calc' = [calc EXCEPT !.sum = loc[t].tmp]
          /\ pc' = [pc EXCEPT ![t] = "ma_put"]
          /\ loc' = loc
    /\ UNCHANGED <<calls, took>>
    /\ MovingAverageFrame

\* buffer[index] = lastRequestDuration
MovingAveragePut(t) ==
    /\ pc[t] = "ma_put"
    /\ calc' = [calc EXCEPT !.buffer = [calc.buffer EXCEPT ![calc.index] = loc[t].d]]
    /\ pc' = [pc EXCEPT ![t] = "ma_add"]
    /\ UNCHANGED <<calls, took, loc>>
    /\ MovingAverageFrame

\* sum += lastRequestDuration
MovingAverageAdd(t) ==
    /\ \/ /\ pc[t] = "ma_add"
          /\ loc' = [loc EXCEPT ![t].tmp = calc.sum + loc[t].d]
          /\ pc' = [pc EXCEPT ![t] = "ma_add_w"]
          /\ calc' = calc
       \/ /\ pc[t] = "ma_add_w"
          /\ calc' = [calc EXCEPT !.sum = loc[t].tmp]
          /\ pc' = [pc EXCEPT ![t] = "ma_idx"]
          /\ loc' = loc
    /\ UNCHANGED <<calls, took>>
    /\ MovingAverageFrame

\* index = (index + 1) % windowSize
MovingAverageIndex(t) ==
    /\ \/ /\ pc[t] = "ma_idx"
          /\ loc' = [loc EXCEPT ![t].tmp = (calc.index + 1) % calc.window]
          /\ pc' = [pc EXCEPT ![t] = "ma_idx_w"]
          /\ calc' = calc
       \/ /\ pc[t] = "ma_idx_w"
          /\ calc' = [calc EXCEPT !.index = loc[t].tmp]
          /\ pc' = [pc EXCEPT ![t] = "ma_cnt"]
          /\ loc' = loc
    /\ UNCHANGED <<calls, took>>
    /\ MovingAverageFrame

\* if count < windowSize { count++ }
MovingAverageCount(t) ==
    /\ \/ /\ pc[t] = "ma_cnt"
          /\ loc' = [loc EXCEPT ![t].tmp = calc.count + 1]
          /\ pc' = [pc EXCEPT ![t] = IF calc.count < calc.window THEN "ma_cnt_w" ELSE "ma_ret"]
          /\ calc' = calc
       \/ /\ pc[t] = "ma_cnt_w"
          /\ calc' = [calc EXCEPT !.count = loc[t].tmp]
          /\ pc' = [pc EXCEPT ![t] = "ma_ret"]
          /\ loc' = loc
    /\ UNCHANGED <<calls, took>>
    /\ MovingAverageFrame

\* return sum / time.Duration(count)
MovingAverageReturn(t) ==
    /\ pc[t] = "ma_ret"
    /\ LET r == calc.sum \div calc.count
       IN  /\ loc' = [loc EXCEPT ![t].est = r]
           /\ calls' = Append(calls, [d |-> loc[t].d, r |-> r])
    /\ pc' = [pc EXCEPT ![t] = "wrap_store"]
    /\ UNCHANGED <<calc, took>>
    /\ MovingAverageFrame

\* ------------------------------------------------------------- the clocks
\* Time passes: the reading of time.Now goes up by one tick.
WallClockTick ==
    /\ clock.wall < MaxTicks
    /\ clock' = [clock EXCEPT !.wall = @ + 1]
    /\ UNCHANGED <<kind, n, transports, calls, build, prior, policy, mutex, pc, loc, nOps, req,
                   net, clamped, took, least>>

\* The caller advances the injected clock by one tick.
InjectedClockAdvance ==
    /\ clock.injected /\ clock.fake < MaxTicks
    /\ clock' = [clock EXCEPT !.fake = @ + 1]
    /\ UNCHANGED <<kind, n, transports, calls, build, prior, policy, mutex, pc, loc, nOps, req,
                   net, clamped, took, least>>

\* The wrapped transport's RoundTrip returns: the wrapper calls
\* l.responseTimeCalculator(time.Since(start)) with the start it read from
\* l.clock().
TimedExchangeEnd(t, o) ==
    /\ pc[t] = "inflight" /\ kind = "lrt" /\ o # "panic"
    /\ LET d == TimeSince(loc[t].start)
           r == CalcCall(calc, d)
       IN  /\ calc' = r.state
           /\ loc' = [loc EXCEPT ![t].est = r.result, ![t].d = d]
           /\ took' = [took EXCEPT ![loc[t].idx] = IF @ = 0 THEN d ELSE Several]
    /\ pc' = [pc EXCEPT ![t] = "wrap_store"]
    /\ UNCHANGED <<config, calls, build, prior, lastSelected, requestCounts, responseTime,
                   mutex, nOps, req, net, clamped, least>>

\* ------------------------------------------------------------ construction
\* A proxy descriptor is the sequence of its characters: HTTP and HTTPS proxies
\* (one written in capitals), the reserved direct descriptor, a SOCKS5 proxy, a
\* host:port pair, and three that url.Parse rejects (nothing before the colon,
\* a colon in the first path segment, a control character).
HTTPProxy == <<"h", "t", "t", "p", ":", "/", "/", "a">>
HTTPSProxy == <<"h", "t", "t", "p", "s", ":", "/", "/", "a">>
CapitalHTTPProxy == <<"H", "T", "T", "P", ":", "/", "/", "a">>
DirectDescriptor == <<"d", "i", "r", "e", "c", "t", ":", "/", "/">>
Socks5Proxy == <<"s", "o", "c", "k", "s", "5", ":", "/", "/", "a">>
HostPort == <<"a", ":", "1">>
MissingScheme == <<":", "/", "/", "a">>
ColonInSegment == <<"1", ":", "a">>
ControlCharacter == <<"a", "\n">>

Malformed == {MissingScheme, ColonInSegment, ControlCharacter}
Descriptors ==
    {HTTPProxy, HTTPSProxy, CapitalHTTPProxy, DirectDescriptor, Socks5Proxy, HostPort}
        \cup Malformed

LowerCase == {"a", "c", "d", "e", "h", "i", "k", "o", "p", "r", "s", "t"}
UpperCase == {"H", "P", "T"}
SchemeMarks == {"1", "5", "+", "-", "."}
ControlChars == {"\n"}

ToLower(c) ==
    CASE c = "H" -> "h"
      [] c = "P" -> "p"
      [] c = "T" -> "t"
      [] OTHER -> c

ParseErr == "url.Error"
NoScheme == <<>>

\* net/url getScheme: the letters, digits and + - . before the first colon; a
\* digit or mark in front, or any other character, means there is no scheme;
\* a colon in front is an error.
RECURSIVE GetScheme(_, _)
GetScheme(rawURL, i) ==
    IF i > Len(rawURL) THEN [scheme |-> NoScheme, rest |-> rawURL, err |-> NoErr]
    ELSE LET c == rawURL[i]
         IN  CASE c \in LowerCase \cup UpperCase -> GetScheme(rawURL, i + 1)
               [] c \in SchemeMarks ->
                    IF i = 1 THEN [scheme |-> NoScheme, rest |-> rawURL, err |-> NoErr]
                    ELSE GetScheme(rawURL, i + 1)
               [] c = ":" ->
                    IF i = 1 THEN [scheme |-> NoScheme, rest |-> <<>>, err |-> ParseErr]
                    ELSE [scheme |-> SubSeq(rawURL, 1, i - 1),
                          rest |-> SubSeq(rawURL, i + 1, Len(rawURL)), err |-> NoErr]
               [] OTHER -> [scheme |-> NoScheme, rest |-> rawURL, err |-> NoErr]

\* The characters of s before its first "/".
RECURSIVE FirstSegment(_)
FirstSegment(s) ==
    IF s = <<>> THEN <<>>
    ELSE IF Head(s) = "/" THEN <<>>
    ELSE <<Head(s)>> \o FirstSegment(Tail(s))

Contains(s, c) == \E j \in 1..Len(s) : s[j] = c

\* url.Parse, on descriptors without "#", "?", "%", "*" and with a plain host:
\* control characters are rejected, the scheme is cut off and put in lower
\* case, and a descriptor without scheme whose first path segment holds a
\* colon is rejected.
UrlParse(rawURL) ==
    IF \E j \in 1..Len(rawURL) : rawURL[j] \in ControlChars
    THEN [Scheme |-> NoScheme, err |-> ParseErr]
    ELSE LET g == GetScheme(rawURL, 1)
             relative == IF g.rest = <<>> THEN TRUE ELSE Head(g.rest) # "/"
         IN  IF g.err # NoErr THEN [Scheme |-> NoScheme, err |-> g.err]
             ELSE IF g.scheme = NoScheme /\ relative /\ Contains(FirstSegment(g.rest), ":")
                  THEN [Scheme |-> NoScheme, err |-> ParseErr]
                  ELSE [Scheme |-> [j \in 1..Len(g.scheme) |-> ToLower(g.scheme[j])],
                        err |-> NoErr]

NoTransport == [transport |-> "nil", via |-> <<>>]

\* &http.Transport{MaxConnsPerHost: 1, MaxIdleConns: 1}, nil
DirectTransport == [t |-> [transport |-> "direct", via |-> <<>>], err |-> NoErr]

\* &http.Transport{Proxy: http.ProxyURL(u), MaxConnsPerHost: 1}, nil
ProxyHTTPTransport(proxyURL) ==
    IF UrlParse(proxyURL).err # NoErr
    THEN [t |-> NoTransport, err |-> "invalid proxy URL"]
    ELSE [t |-> [transport |-> "http proxy", via |-> proxyURL], err |-> NoErr]

\* proxy.SOCKS5 builds the dialer from the address as given, without looking
\* into it, and returns no error.
ProxySocks5Transport(socksAddr) ==
    [t |-> [transport |-> "socks5", via |-> socksAddr], err |-> NoErr]

SchemeHTTP == <<"h", "t", "t", "p">>
SchemeHTTPS == <<"h", "t", "t", "p", "s">>
SchemeDirect == <<"d", "i", "r", "e", "c", "t">>

\* The repository defines DefaultTransportFactory twice: in transport.go the
\* switch has no case for the scheme "direct", in the other file it has.
FactoryVersions == {"without direct", "with direct"}

DefaultTransportFactory(version, proxyURL) ==
    LET u == UrlParse(proxyURL)
    IN  IF u.err # NoErr THEN [t |-> NoTransport, err |-> u.err]
        ELSE CASE u.Scheme \in {SchemeHTTP, SchemeHTTPS} -> ProxyHTTPTransport(proxyURL)
               [] u.Scheme = SchemeDirect /\ version = "with direct" -> DirectTransport
               [] OTHER -> ProxySocks5Transport(proxyURL)

\* func DirectTransportFactory(_ string): DirectTransport()
DirectTransportFactory(proxyURL) == DirectTransport

\* cfg.TransportFactory: the default, or the one an option installed.
Factories == FactoryVersions \cup {"DirectTransportFactory"}
TransportFactory(f, proxy) ==
    IF f = "DirectTransportFactory" THEN DirectTransportFactory(proxy)
    ELSE DefaultTransportFactory(f, proxy)

MaxProxies == MaxHandles

RECURSIVE ProxyLists(_)
ProxyLists(k) ==
    IF k = 0 THEN {<<>>}
    ELSE {Append(s, d) : s \in ProxyLists(k - 1), d \in Descriptors}

\* One iteration of the constructor's loop over cfg.Proxies: the factory call,
\* then "continue" on an error or the append.
BuildStep ==
    /\ build.phase = "loop" /\ build.i <= Len(build.proxies)
    /\ LET r == TransportFactory(build.factory, build.proxies[build.i])
       IN  build' = [build EXCEPT !.i = @ + 1,
                                  !.tried = Append(@, r),
                                  !.made = IF r.err # NoErr THEN @ ELSE Append(@, r.t)]
    /\ UNCHANGED <<config, calls, prior, policy, mutex, pc, loc, nOps, req, net, clamped,
                   took, least>>

\* return Transport(New...Strategy(transports)): position j of the strategy's
\* list holds the j-th transport made, and the per-position state is zeroed.
BuildReturn ==
    /\ build.phase = "loop" /\ build.i > Len(build.proxies)
    /\ n' = Len(build.made)
    /\ transports' = Distinct(n')
    /\ requestCounts' = [i \in 0..(n' - 1) |-> 0]
    /\ responseTime' = [i \in 0..(n' - 1) |-> 0]
    /\ net' = [i \in 0..(n' - 1) |-> 0]
    /\ clamped' = [i \in 0..(n' - 1) |-> 0]
    /\ took' = [i \in 0..(n' - 1) |-> 0]
    /\ build' = Built
    /\ UNCHANGED <<kind, clock, calls, prior, lastSelected, calc, mutex, pc, loc, nOps, req,
                   least>>

\* ------------------------------------------------------ a calculator alone
strategyVars ==
    <<kind, n, transports, lastSelected, requestCounts, responseTime, mutex, pc, loc,
      nOps, req, net, clamped, took, least, build, prior, clock>>

NewLastValue ==
    /\ calc = NoCalc
    /\ calc' = LastValueCalc
    /\ UNCHANGED <<strategyVars, calls>>

NewMovingAverage(windowSize) ==
    /\ calc = NoCalc
    /\ calc' = LeastResponseTimeMovingAverageCalculator(windowSize)
    /\ UNCHANGED <<strategyVars, calls>>

NewWeightedAverage(weight) ==
    /\ calc = NoCalc
    /\ calc' = LeastResponseTimeWeightedAverageCalculator(weight)
    /\ UNCHANGED <<strategyVars, calls>>

\* calculator(d).  A closure constructed with weight NaN is called until it is
\* seeded: what the conversion of NaN to time.Duration gives afterwards differs
\* between architectures.
CalculatorCall(d) ==
    /\ calc.type \in {"last", "moving", "weighted"}
    /\ Len(calls) < MaxCalls
    /\ ~(calc.type = "weighted" /\ <<calc.wnum, calc.wden>> = NaN /\ calc.prev # 0)
    /\ \E o \in CalcOutcomes(calc, d) :
           /\ calc' = o.state
           /\ calls' = Append(calls, [d |-> d, r |-> o.result])
    /\ UNCHANGED strategyVars

\* ------------------------------------------------------------ specification
\* The steps of Acquire after the call.
AcquireSteps(t) ==
    \/ AcquireEmpty(t)
    \/ AcquireLock(t)
    \/ AcquireUnlock(t)

\* Callers that use a round-robin strategy directly.
NextRR ==
    \E t \in Threads :
        \/ StartAcquire(t)
        \/ \E h \in HandleValues \cup {ForeignHandle} : StartRelease(t, h)
        \/ AcquireSteps(t)
        \/ RRAcquireRead(t)
        \/ RRAcquireBody(t)
        \/ ReleaseNoop(t)

\* Callers that use a fill-holes strategy directly.
NextFH ==
    \E t \in Threads :
        \/ StartAcquire(t)
        \/ \E h \in HandleValues \cup {ForeignHandle} : StartRelease(t, h)
        \/ AcquireSteps(t)
        \/ FHAcquireScan(t)
        \/ FHAcquireBody(t)
        \/ FHReleaseLock(t)
        \/ FHReleaseBody(t)
        \/ FHReleaseUnlock(t)

\* Callers that use a least-response-time strategy and its wrappers directly.
NextLRT ==
    \E t \in Threads :
        \/ StartAcquire(t)
        \/ \E h \in HandleValues \cup {ForeignHandle} : StartRelease(t, h)
        \/ \E i \in Pos : StartExchange(t, i)
        \/ AcquireSteps(t)
        \/ LRTScanInit(t)
        \/ LRTScanStep(t)
        \/ WrappedExchangePanic(t)
        \/ \E o \in Outcomes \ {"panic"}, d \in Samples : WrappedExchangeEnd(t, o, d)
        \/ WrapStore(t)
        \/ ReleaseNoop(t)

\* Every call goes through StrategyTransport.RoundTrip.
NextDispatch ==
    \E t \in Threads :
        \/ StartDispatch(t)
        \/ AcquireSteps(t)
        \/ RRAcquireRead(t)
        \/ RRAcquireBody(t)
        \/ FHAcquireScan(t)
        \/ FHAcquireBody(t)
        \/ LRTScanInit(t)
        \/ LRTScanStep(t)
        \/ \E o \in Outcomes : PlainExchangeEnd(t, o)
        \/ WrappedExchangePanic(t)
        \/ \E o \in Outcomes \ {"panic"}, d \in Samples : WrappedExchangeEnd(t, o, d)
        \/ WrapStore(t)
        \/ ReleaseNoop(t)
        \/ FHReleaseLock(t)
        \/ FHReleaseBody(t)
        \/ FHReleaseUnlock(t)
        \/ DispatchReturn(t)

NextCalc ==
    \/ NewLastValue
    \/ \E windowSize \in TestWindows : NewMovingAverage(windowSize)
    \/ \E weight \in TestWeights : NewWeightedAverage(weight)
    \/ \E d \in TestSamples : CalculatorCall(d)

NextBuild == BuildStep \/ BuildReturn

\* Exchanges on the wrappers of a strategy while the clocks advance.
NextClock ==
    \/ WallClockTick
    \/ InjectedClockAdvance
    \/ \E t \in Threads :
          \/ \E i \in Pos : nOps < MaxUpdates /\ StartExchange(t, i)
          \/ \E o \in Outcomes \ {"panic"} : TimedExchangeEnd(t, o)
          \/ WrapStore(t)

\* A list whose last transport is a dead proxy: its RoundTrip returns an error
\* after 50ms, while the others return a response after 100ms or 150ms.
FailingHandle == n - 1
TransportOutcome(i) == IF i = FailingHandle THEN "error" ELSE "response"
TransportDurations(i) == IF i = FailingHandle THEN {50000000} ELSE {100000000, 150000000}

\* Requests through the dispatcher and direct calls on such a list.
NextFailing ==
    \E t \in Threads :
        \/ StartDispatch(t)
        \/ StartAcquire(t)
        \/ \E i \in Pos : StartExchange(t, i)
        \/ AcquireSteps(t)
        \/ LRTScanInit(t)
        \/ LRTScanStep(t)
        \/ \E d \in TransportDurations(loc[t].idx) :
              WrappedExchangeEnd(t, TransportOutcome(loc[t].idx), d)
        \/ WrapStore(t)
        \/ ReleaseNoop(t)
        \/ DispatchReturn(t)

\* Exchanges on the wrappers of a strategy whose calculator is a moving average,
\* taking 50ms or 100ms.
UpdateSamples == {50000000, 100000000}
NextMovingAverage ==
    \E t \in Threads :
        \/ \E i \in Pos : nOps < MaxUpdates /\ StartExchange(t, i)
        \/ \E d \in UpdateSamples : MovingAverageEnter(t, d)
        \/ MovingAverageSub(t)
        \/ MovingAveragePut(t)
        \/ MovingAverageAdd(t)
        \/ MovingAverageIndex(t)
        \/ MovingAverageCount(t)
        \/ MovingAverageReturn(t)
        \/ WrapStore(t)

Next ==
    \/ NextRR \/ NextFH \/ NextLRT \/ NextDispatch \/ NextCalc \/ NextBuild
    \/ NextMovingAverage \/ NextFailing \/ NextClock

InitRR == InitOf({"rr"})
InitFH == InitOf({"fh"})
InitLRT == InitOf({"lrt"})
Init == InitOf(Kinds)

\* A calculator alone: no strategy, no handles, nothing constructed yet.
InitCalc ==
    /\ kind = "none"
    /\ clock = SystemClock
    /\ n = 0
    /\ transports = <<>>
    /\ lastSelected = -1
    /\ requestCounts = <<>>
    /\ responseTime = <<>>
    /\ calc = NoCalc
    /\ mutex = NoThread
    /\ pc = [t \in Threads |-> "idle"]
    /\ loc = [t \in Threads |-> LocInit]
    /\ nOps = 0
    /\ req = [t \in Threads |-> ReqInit]
    /\ net = <<>>
    /\ clamped = <<>>
    /\ took = <<>>
    /\ least = [t \in Threads |-> {}]
    /\ calls = <<>>
    /\ build = Built
    /\ prior = NoPrior

\* TransportRoundRobin, TransportFillHoles or TransportLeastResponseTime has
\* applied its options and is about to loop over cfg.Proxies.
InitBuild ==
    /\ kind \in Kinds
    /\ clock = SystemClock
    /\ n = 0
    /\ transports = <<>>
    /\ lastSelected = -1
    /\ requestCounts = <<>>
    /\ responseTime = <<>>
    /\ calc \in (IF kind = "lrt" THEN Calculators ELSE {LastValueCalc})
    /\ mutex = NoThread
    /\ pc = [t \in Threads |-> "idle"]
    /\ loc = [t \in Threads |-> LocInit]
    /\ nOps = 0
    /\ req = [t \in Threads |-> ReqInit]
    /\ net = <<>>
    /\ clamped = <<>>
    /\ took = <<>>
    /\ least = [t \in Threads |-> {}]
    /\ calls = <<>>
    /\ build \in {[phase |-> "loop", factory |-> f, proxies |-> p, i |-> 1,
                   tried |-> <<>>, made |-> <<>>] :
                      f \in Factories, p \in UNION {ProxyLists(k) : k \in 0..MaxProxies}}
    /\ prior = NoPrior

SpecRR == InitRR /\ [][NextRR]_vars
SpecFH == InitFH /\ [][NextFH]_vars
SpecLRT == InitLRT /\ [][NextLRT]_vars
SpecDispatch == Init /\ [][NextDispatch]_vars
SpecCalc == InitCalc /\ [][NextCalc]_vars
InitMovingAverage == InitLRT /\ calc.type = "moving" /\ n = MaxWrappers
SpecMovingAverage == InitMovingAverage /\ [][NextMovingAverage]_vars
InitClock ==
    /\ InitOn({"lrt"}, {SystemClock, InjectedClock})
    /\ n \in 1..MaxWrappers
    /\ calc = LastValueCalc
SpecClock == InitClock /\ [][NextClock]_vars
SpecFailing == InitLRT /\ [][NextFailing]_vars
SpecBuild == InitBuild /\ [][NextBuild \/ NextDispatch]_vars

\* Direct callers of the two strategies whose Release has an empty body.
SpecNoopRelease == InitOf({"rr", "lrt"}) /\ [][NextRR \/ NextLRT]_vars

\* The steps thread t takes inside the strategy's mutex.
LockedSteps(t) ==
    \/ RRAcquireRead(t)
    \/ RRAcquireBody(t)
    \/ FHAcquireScan(t)
    \/ FHAcquireBody(t)
    \/ LRTScanInit(t)
    \/ LRTScanStep(t)
    \/ AcquireUnlock(t)
    \/ FHReleaseBody(t)
    \/ FHReleaseUnlock(t)

\* Fair scheduling of the strategy's code: a goroutine holding the mutex keeps
\* running, and a goroutine waiting in Lock gets the mutex if it is free again
\* and again (sync.Mutex hands a starving waiter the mutex).  Nothing is
\* assumed about the exchanges: they may never end.
Fairness ==
    \A t \in Threads :
        /\ WF_vars(LockedSteps(t))
        /\ WF_vars(AcquireEmpty(t))
        /\ SF_vars(AcquireLock(t))

SpecDispatchFair == Init /\ [][NextDispatch]_vars /\ Fairness
Spec == (Init \/ InitCalc \/ InitBuild) /\ [][Next]_vars

\* ------------------------------------------------------------------ properties
Max0(x) == IF x < 0 THEN 0 ELSE x

\* The calculator c as the constructor returned it, before any sample.
Fresh(c) ==
    [c EXCEPT !.buffer = [i \in DOMAIN c.buffer |-> 0],
              !.index = 0, !.count = 0, !.sum = 0, !.prev = 0]

Ms(k) == k * 1000000

\* C1: round-robin over k >= 1 handles: the i-th Acquire (0-indexed, in the
\* order the Acquires take the mutex) returns handles[i mod k].  While an
\* Acquire holds the mutex after its advance, Total(net) is the number of
\* Acquires made so far, itself included.
C1_RoundRobinCyclicOrder ==
    \A t \in Threads :
        (kind = "rr" /\ pc[t] = "acq_unlock") =>
            /\ loc[t].idx = (Total(net) - 1) % n
            /\ loc[t].h = transports[(Total(net) - 1) % n]
            /\ \A i \in Pos :
                   net[i] = Cardinality({m \in 0..(Total(net) - 1) : m % n = i})

\* The 2k-th Acquire over k = 3 handles returns the last handle again.
C1_Witness ==
    \E t \in Threads :
        /\ kind = "rr" /\ n = 3 /\ pc[t] = "acq_unlock"
        /\ Total(net) = 2 * n
        /\ loc[t].h = transports[n - 1]

\* C2: fill-holes Acquire on a non-empty list returns the handle whose counter
\* is <= every other counter, the lowest position among those tied at the
\* minimum, and increments exactly that counter by one; all other counters
\* are unchanged.
C2_FillHolesAcquire ==
    [][\A t \in Threads :
          (kind = "fh" /\ pc[t] = "fh_incr" /\ pc'[t] = "acq_unlock") =>
              LET m == loc'[t].idx
              IN  /\ m \in Pos
                  /\ loc'[t].h = transports[m]
                  /\ \A j \in Pos : requestCounts[m] <= requestCounts[j]
                  /\ \A j \in Pos : requestCounts[j] = requestCounts[m] => m <= j
                  /\ requestCounts' = [requestCounts EXCEPT ![m] = @ + 1]]_vars

\* An Acquire chose position 1 among positions 1 and 2 tied at 0, position 0
\* being at 1.
C2_Witness ==
    \E t \in Threads :
        /\ kind = "fh" /\ n = 3 /\ pc[t] = "acq_unlock"
        /\ loc[t].idx = 1
        /\ requestCounts[0] = 1 /\ requestCounts[1] = 1 /\ requestCounts[2] = 0

\* C3, as stated: on a fill-holes policy (over pairwise distinct handles) every
\* handle's counter equals max(0, A - R), A the Acquires that returned the
\* handle and R the Releases called with it.
C3_CounterIsFlooredDifference ==
    (kind = "fh" /\ transports = Distinct(n)) =>
        \A i \in Pos : requestCounts[i] = Max0(net[i])

\* C3, amended: every position's counter equals A - R + Z, A the Acquires that
\* selected the position, R the Releases whose handle is first found at the
\* position and Z those of the R Releases that found the counter at 0: the
\* clamp applies to each decrement, not to the difference.
C3_CounterIsClampedDifference ==
    kind = "fh" =>
        \A i \in Pos : requestCounts[i] = net[i] + clamped[i]

\* A Release found a counter at 0 and an Acquire selected the handle afterwards.
C3_Witness ==
    \E i \in Pos :
        /\ kind = "fh" /\ \A t \in Threads : pc[t] = "idle"
        /\ net[i] = 0 /\ clamped[i] = 1 /\ requestCounts[i] = 1

\* C4: on a fill-holes policy, under any interleaving of Acquires and Releases
\* (paired or not), every counter is >= 0 in every state, and a Release of a
\* handle whose counter is 0 leaves that counter at 0.
C4_CountersNeverNegative ==
    /\ [](kind = "fh" => \A i \in Pos : requestCounts[i] >= 0)
    /\ [][\A t \in Threads :
             (pc[t] = "rel_body" /\ pc'[t] = "rel_unlock") =>
                 \A j \in Pos :
                     (transports[j] = loc[t].h /\ requestCounts[j] = 0)
                         => requestCounts'[j] = 0]_vars

\* A Release has just run on a handle whose counter was at 0, while the other
\* thread is inside a call of its own.
C4_Witness ==
    \E t \in Threads, u \in Threads, j \in Pos :
        /\ kind = "fh" /\ pc[t] = "rel_unlock" /\ u # t /\ pc[u] # "idle"
        /\ transports[j] = loc[t].h
        /\ clamped[j] >= 1 /\ requestCounts[j] = 0

\* C5: for every dispatched request whose Acquire succeeded, Release is called
\* exactly once, with the handle Acquire returned, after the exchange on that
\* handle has ended and before the result reaches the caller, whether the
\* exchange returned a response, an error, was cancelled or panicked.
C5_ReleaseExactlyOnce ==
    \A t \in Threads :
        req[t].active =>
            /\ req[t].nRel <= 1
            /\ req[t].nRel = 1 =>
                   /\ req[t].acqErr = NoErr
                   /\ req[t].relHandle = req[t].handle
                   /\ req[t].exchOn = req[t].handle
                   /\ req[t].exchEnded
                   /\ req[t].relInOrder
            /\ (pc[t] = "disp_return" /\ req[t].acqErr = NoErr) => req[t].nRel = 1

\* One request is about to hand a panic to its caller and another a
\* cancellation, each after its one Release.
C5_Witness ==
    \E t \in Threads, u \in Threads :
        /\ pc[t] = "disp_return" /\ req[t].exchPanic /\ req[t].nRel = 1
        /\ pc[u] = "disp_return" /\ req[u].exchErr = "context canceled"
        /\ req[u].nRel = 1

\* C6: when the policy's Acquire fails, the dispatcher returns that error and
\* no response, runs no exchange, calls no Release, and the policy's state is
\* the same as before the request.
C6_AcquireErrorAborts ==
    /\ [](\A t \in Threads :
             (req[t].active /\ req[t].acqErr # NoErr) =>
                 /\ req[t].nExch = 0 /\ req[t].nRel = 0
                 /\ pc[t] = "disp_return"
                 /\ loc[t].err = req[t].acqErr /\ loc[t].resp = NoResp)
    /\ [][\A t \in Threads :
             (pc'[t] # pc[t] /\ (req[t].acqErr # NoErr \/ req'[t].acqErr # NoErr))
                 => UNCHANGED <<policy, mutex>>]_vars

\* A request on a dispatcher without transports is about to return the error.
C6_Witness ==
    \E t \in Threads :
        /\ pc[t] = "disp_return" /\ req[t].acqErr # NoErr /\ req[t].nAcq = 1

\* C7: on an empty list, Acquire of each of the three policies returns no
\* handle and fails with the one ErrNoTransports value, and leaves the
\* policy's state as it was.
C7_OneErrorOnEmptyList ==
    \A t \in Threads :
        (n = 0 /\ req[t].nAcq = 1) =>
            /\ req[t].handle = NoHandle
            /\ req[t].acqErr = ErrNoTransports
            /\ lastSelected = -1 /\ mutex = NoThread

\* C8: least-response-time Acquire returns a handle whose estimate, at some
\* moment of the call, was <= every other handle's estimate and at the lowest
\* position among those tied (so a handle at zero goes ahead of every handle
\* with a positive estimate).
C8_AcquireReturnsLeastEstimate ==
    \A t \in Threads :
        (kind = "lrt" /\ pc[t] = "acq_unlock") => loc[t].idx \in least[t]

\* C9: the estimate a handle holds after its exchanges is a function of the
\* durations measured on that handle only: after exactly one exchange on it,
\* it is what the calculator returns for that one sample when nothing else was
\* fed to it.
C9_EstimateFromOwnSamples ==
    \A h \in Pos :
        (/\ kind = "lrt" /\ took[h] \in Samples
         /\ \A u \in Threads : ~(pc[u] = "wrap_store" /\ loc[u].idx = h))
            => responseTime[h] = CalcCall(Fresh(calc), took[h]).result

\* C10: with three handles that have each completed one exchange, of 100ms,
\* 50ms and 150ms for handles 0, 1 and 2, the next Acquire returns handle 1,
\* for every calculator.
C10_FastestHandleSelected ==
    \A t \in Threads :
        (/\ kind = "lrt" /\ n = 3 /\ pc[t] = "acq_unlock" /\ loc[t].once
         /\ took[0] = Ms(100) /\ took[1] = Ms(50) /\ took[2] = Ms(150))
            => loc[t].idx = 1

\* Positions of a thread that holds the strategy's mutex.
InCriticalSection(t) ==
    pc[t] \in {"acq_body", "rr_write", "fh_incr", "lrt_init", "lrt_loop", "acq_unlock",
              "rel_body", "rel_unlock"}

\* Every call made so far is an Acquire: no Release has been called.
NoReleaseYet ==
    /\ \A t \in Threads : pc[t] \notin {"rel_call", "rel_body", "rel_unlock"}
    /\ nOps = Total(net)
                + Cardinality({t \in Threads :
                                  pc[t] \in {"acq_call", "acq_body", "rr_write", "fh_incr"}})

\* v is floor(m/k) or ceil(m/k).
Balanced(v, m, k) == v = m \div k \/ v = (m + k - 1) \div k

\* C13: fill-holes Acquire's scan-and-increment is atomic with respect to every
\* other Acquire and Release: one call at a time is inside the mutex, the
\* counters an Acquire scanned are unchanged when it increments, and m
\* Acquires with no Release on a fresh policy over k handles leave counters
\* that sum to m, each floor(m/k) or ceil(m/k).
C13_FillHolesAcquireAtomic ==
    kind = "fh" =>
        /\ \A t \in Threads, u \in Threads :
               (t # u /\ InCriticalSection(t)) => ~InCriticalSection(u)
        /\ \A t \in Threads :
               pc[t] = "fh_incr" => loc[t].minIndex = FHMinIndex(requestCounts, n)
        /\ (n > 0 /\ NoReleaseYet) =>
               /\ Total(requestCounts) = Total(net)
               /\ \A i \in Pos : Balanced(requestCounts[i], Total(requestCounts), n)

\* Five Acquires and no Release over 3 handles: the fifth has incremented and
\* still holds the mutex while another Acquire waits for it.
C13_Witness ==
    \E t \in Threads, u \in Threads :
        /\ kind = "fh" /\ n = 3 /\ NoReleaseYet
        /\ pc[t] = "acq_unlock" /\ pc[u] = "acq_call"
        /\ Total(requestCounts) = 5

C11_EstimateChangesAtOwnCompletion ==
    /\ [](kind = "lrt" => \A h \in Pos : responseTime[h] # 0 => took[h] # 0)
    /\ [][\A h \in Pos :
             responseTime'[h] # responseTime[h] =>
                 \E t \in Threads :
                     /\ pc[t] = "wrap_store" /\ pc'[t] # "wrap_store"
                     /\ loc[t].idx = h
                     /\ responseTime'[h] = loc[t].est]_vars

\* An Acquire is scanning while an exchange is in flight on handle 1, whose
\* estimate is still zero; handle 0 has a stored estimate.
C11_Witness ==
    \E t \in Threads, u \in Threads :
        /\ kind = "lrt" /\ n = 2
        /\ pc[t] = "lrt_loop" /\ loc[t].i = 1
        /\ pc[u] = "inflight" /\ loc[u].idx = 1
        /\ responseTime[0] # 0 /\ responseTime[1] = 0

\* C12: the reads of the estimates by Acquire's scan and the write of an
\* estimate by a completing wrapped exchange exclude each other: in no state is
\* one thread about to write an estimate while another is inside the scan.
C12_EstimateAccessExclusive ==
    \A t \in Threads, u \in Threads :
        ~(pc[t] = "wrap_store" /\ pc[u] \in {"lrt_init", "lrt_loop"})

\* C15: Acquire never waits for a request's completion: no thread holds the
\* strategy's mutex while its exchange executes, and with a non-empty list
\* every Acquire called returns a handle, under fair scheduling of the
\* strategy's code alone: the exchanges in flight may never complete.
C15_AcquireNeverWaitsForExchange ==
    /\ [](\A t \in Threads :
             /\ pc[t] \in {"inflight", "wrap_store"} => mutex # t
             /\ mutex = t => InCriticalSection(t))
    /\ \A t \in Threads :
           (pc[t] = "acq_call" /\ n # 0)
               ~> (pc[t] = "inflight" /\ req[t].handle \in HandleValues)

\* An Acquire returns a handle while the other thread's exchange is in flight.
C15_Witness ==
    \E t \in Threads, u \in Threads :
        /\ t # u /\ pc[u] = "inflight" /\ req[u].nExch = 1
        /\ pc[t] = "inflight" /\ req[t].handle \in HandleValues
        /\ nOps = MaxRequests

\* What the calculator that stands alone was fed and what it returned, in order.
Fed == [k \in 1..Len(calls) |-> calls[k].d]
Returned == [k \in 1..Len(calls) |-> calls[k].r]

Min(a, b) == IF a < b THEN a ELSE b

\* Fed[lo] + ... + Fed[hi].
RECURSIVE FedSum(_, _)
FedSum(lo, hi) == IF hi < lo THEN 0 ELSE Fed[hi] + FedSum(lo, hi - 1)

\* C16: the moving-average calculator with window N >= 1 returns, after each
\* sample, the sum of the last min(N, seen) samples divided (integer division)
\* by min(N, seen); with N = 3 and the samples 100, 200, 300, 400 ms it returns
\* 100, 150, 200, 300 ms.
C16_MovingAverageIsWindowMean ==
    calc.type = "moving" =>
        /\ calc.window >= 1
        /\ \A k \in 1..Len(calls) :
               Returned[k] = FedSum(k - Min(calc.window, k) + 1, k) \div Min(calc.window, k)
        /\ (calc.window = 3 /\ Fed = <<Ms(100), Ms(200), Ms(300), Ms(400)>>)
               => Returned = <<Ms(100), Ms(150), Ms(200), Ms(300)>>

\* Window 3 has been fed 100, 200, 300, 400 ms: the fourth sample has
\* overwritten the first.
C16_Witness ==
    /\ calc.type = "moving"
    /\ calc.window = 3
    /\ Fed = <<Ms(100), Ms(200), Ms(300), Ms(400)>>
    /\ calc.buffer[0] = Ms(400)

\* v is num/den to the nanosecond: the float64 result, truncated, is the
\* integer below or above the quotient.
WithinOne(v, num, den) == v * den - num <= den /\ num - v * den <= den

ValidWeight == calc.wden > 0 /\ 0 <= calc.wnum /\ calc.wnum <= calc.wden

\* C17: the weighted-average calculator with weight w in [0,1] returns the
\* first sample unchanged, and for every later sample returns
\* w*sample + (1-w)*(the value it returned for the sample before), whatever the
\* samples, a zero sample or a zero estimate included.
C17_WeightedAverageFold ==
    (calc.type = "weighted" /\ ValidWeight) =>
        \A k \in 1..Len(calls) :
            IF k = 1
            THEN Returned[k] = Fed[k]
            ELSE WithinOne(Returned[k],
                           calc.wnum * Fed[k] + (calc.wden - calc.wnum) * Returned[k - 1],
                           calc.wden)

\* The weight and the response times of the documentation and of the test:
\* 0.8 and 100ms, 200ms, 150ms, 50ms.
DocWeight == calc.type = "weighted" /\ <<calc.wnum, calc.wden>> = <<4, 5>>
DocSamples == <<Ms(100), Ms(200), Ms(150), Ms(50)>>

\* The calls so far are the first ones of the example.
InDocExample == DocWeight /\ Len(calls) <= 4 /\ Fed = SubSeq(DocSamples, 1, Len(calls))

C20_ConstructionValidates ==
    /\ calc.type = "weighted" => ValidWeight
    /\ calc.type = PanicWeight => ~ValidWeight /\ calls = <<>>
    /\ calc.type = "moving" => calc.window >= 1
    /\ calc.type = PanicWindowSize => calc.window <= 0 /\ calls = <<>>

\* C22: Release on a round-robin policy and on a least-response-time policy
\* changes no policy state, whatever its argument: the cursor and every
\* estimate (and the calculator behind them) are the same after the call as
\* before, so the position the next Acquire selects is the same too.
C22_ReleaseChangesNothing ==
    [][\A t \in Threads :
          (kind \in {"rr", "lrt"} /\ pc[t] = "rel_call" /\ pc'[t] # "rel_call") =>
              /\ lastSelected' = lastSelected
              /\ responseTime' = responseTime
              /\ calc' = calc
              /\ requestCounts' = requestCounts
              /\ n # 0 => /\ RRAdvance(lastSelected', n) = RRAdvance(lastSelected, n)
                          /\ FirstLeast(responseTime') = FirstLeast(responseTime)]_vars

\* Round-robin over two handles: two Acquires and one Release have returned,
\* and the cursor stands where the second Acquire left it.
C22_Witness ==
    /\ kind = "rr" /\ n = 2
    /\ \A t \in Threads : pc[t] = "idle"
    /\ nOps = 3 /\ Total(net) = 2
    /\ lastSelected = 1

\* C23: fill-holes Release called with a handle that is not in the list leaves
\* every counter unchanged; called with a handle of the list it changes at most
\* that handle's counter - the counter at the first position holding it, by
\* exactly -1 when it was positive, not at all when it was 0 - and no other
\* counter.  The Lock and Unlock steps of a Release change no counter.
C23_FillHolesReleaseFrame ==
    [][\A t \in Threads :
          /\ (kind = "fh" /\ pc[t] = "rel_body" /\ pc'[t] = "rel_unlock") =>
                 LET h == loc[t].h
                 IN  /\ h \notin HandleValues => requestCounts' = requestCounts
                     /\ \A j \in Pos :
                            IF FirstHolder(j, h) /\ requestCounts[j] > 0
                            THEN requestCounts'[j] = requestCounts[j] - 1
                            ELSE requestCounts'[j] = requestCounts[j]
          /\ (kind = "fh" /\ pc[t] \in {"rel_call", "rel_unlock"} /\ pc'[t] # pc[t]) =>
                 requestCounts' = requestCounts]_vars

\* A Release with a handle that is not in the list has run its loop while a
\* counter of the list was positive.
C23_Witness ==
    \E t \in Threads :
        /\ kind = "fh" /\ pc[t] = "rel_unlock"
        /\ loc[t].h = ForeignHandle
        /\ \E i \in Pos : requestCounts[i] > 0

\* C24: the dispatcher returns exactly the response and the error that the
\* selected handle's exchange produced, and each request makes exactly one
\* Acquire and at most one exchange, on the handle Acquire returned: a failed
\* exchange is not retried, on that handle or on another.
C24_ResultPassedThroughOnce ==
    \A t \in Threads :
        req[t].active =>
            /\ req[t].nAcq <= 1
            /\ req[t].nExch <= 1
            /\ req[t].nExch = 1 => req[t].acqErr = NoErr /\ req[t].exchOn = req[t].handle
            /\ pc[t] = "disp_return" =>
                   /\ req[t].nAcq = 1
                   /\ req[t].acqErr = NoErr =>
                          /\ req[t].nExch = 1 /\ req[t].exchEnded
                          /\ loc[t].resp = req[t].exchResp
                          /\ loc[t].err = req[t].exchErr
                          /\ loc[t].panicked = req[t].exchPanic
                          /\ \E o \in Outcomes :
                                 <<loc[t].resp, loc[t].err, loc[t].panicked>> = ExchangeResult(o)

\* A request whose exchange failed is about to return that error, after one
\* Acquire and one exchange.
C24_Witness ==
    \E t \in Threads :
        /\ pc[t] = "disp_return"
        /\ loc[t].err = "transport error" /\ loc[t].resp = NoResp
        /\ req[t].nAcq = 1 /\ req[t].nExch = 1

\* C25: with no Release calls a fill-holes policy over k handles selects like
\* round-robin: the m-th Acquire (1-indexed, in the order of the mutex) returns
\* handles[(m - 1) mod k], and after m Acquires counter i is the number of
\* times position i was returned; for k = 3 the fifth Acquire returns the
\* second handle and leaves the counters 2, 2, 1.
C25_FillHolesIsRoundRobinWithoutRelease ==
    (kind = "fh" /\ n > 0 /\ NoReleaseYet) =>
        LET m == Total(net)
        IN  /\ \A i \in Pos :
                   /\ requestCounts[i] = net[i]
                   /\ requestCounts[i] = Cardinality({j \in 0..(m - 1) : j % n = i})
            /\ \A t \in Threads :
                   pc[t] = "acq_unlock" =>
                       /\ loc[t].idx = (m - 1) % n
                       /\ loc[t].h = transports[(m - 1) % n]
                       /\ (n = 3 /\ m = 5) =>
                              /\ loc[t].idx = 1
                              /\ requestCounts = (0 :> 2 @@ 1 :> 2 @@ 2 :> 1)

\* The fifth Acquire over three handles, no Release having been called, is
\* about to return.
C25_Witness ==
    \E t \in Threads :
        /\ kind = "fh" /\ n = 3 /\ transports = Distinct(3) /\ NoReleaseYet
        /\ pc[t] = "acq_unlock"
        /\ Total(net) = 5
        /\ loc[t].h = 1

\* The dispatched request of thread t has acquired position i (the increment of
\* its Acquire is done) and has not released it (the loop of its Release is not).
Holding(t, i) ==
    /\ loc[t].mode = "dispatch"
    /\ loc[t].idx = i
    /\ pc[t] \in {"acq_unlock", "inflight", "rel_call", "rel_body"}

\* C27: when every Acquire and Release of a fill-holes policy over pairwise
\* distinct handles is issued by the dispatcher, in every reachable state each
\* handle's counter equals the number of requests that have acquired the handle
\* and not yet released it; once every dispatched request has returned, all
\* counters are 0.
C27_CountersAreInFlightRequests ==
    (kind = "fh" /\ transports = Distinct(n)) =>
        /\ \A i \in Pos : requestCounts[i] = Cardinality({t \in Threads : Holding(t, i)})
        /\ (\A t \in Threads : pc[t] = "idle") => \A i \in Pos : requestCounts[i] = 0

\* One request is in its exchange on the second handle while another, whose
\* exchange on the first handle panicked, has released and is about to return.
C27_Witness ==
    \E t \in Threads, u \in Threads :
        /\ kind = "fh" /\ n = 2 /\ transports = Distinct(2)
        /\ pc[t] = "inflight" /\ loc[t].idx = 1
        /\ pc[u] = "disp_return" /\ req[u].exchPanic /\ req[u].handle = 0
        /\ requestCounts = (0 :> 0 @@ 1 :> 1)

\* The loop of thread t's Release runs next after the increment of an Acquire
\* that returned the handle being released, nothing else being in progress.
ReleaseRightAfterAcquire(t) ==
    /\ kind = "fh" /\ pc[t] = "rel_body"
    /\ prior # NoPrior
    /\ loc[t].h = transports[prior.idx]
    /\ \A u \in Threads \ {t} : pc[u] = "idle"

\* C28: for a fill-holes policy over any handle list, a list that holds the
\* same transport at two positions included, an Acquire immediately followed by
\* Release of the handle it returned restores every counter to its value
\* before the Acquire.
C28_AcquireReleaseRestores ==
    [][\A t \in Threads :
          (ReleaseRightAfterAcquire(t) /\ pc'[t] = "rel_unlock") =>
              requestCounts' = prior.counts]_vars

\* C29: least-response-time Acquire changes no policy state - no step of it
\* changes an estimate, the calculator or any record of requests in flight -
\* so Acquires during which no exchange completes, sequential or concurrent,
\* all return the one handle the estimates determine (the first of the least),
\* and on a fresh policy they return handle 0.
C29_AcquireChangesNothing ==
    /\ [](\A t \in Threads :
             (kind = "lrt" /\ pc[t] = "acq_unlock") =>
                 /\ ~loc[t].stored => loc[t].idx = FirstLeast(responseTime)
                 /\ (\A i \in Pos : took[i] = 0) => loc[t].idx = 0 /\ loc[t].h = transports[0])
    /\ [][\A t \in Threads :
             (kind = "lrt" /\ InAcquire(t) /\ (pc'[t] # pc[t] \/ loc'[t] # loc[t])
                 /\ \A u \in Threads \ {t} : pc'[u] = pc[u])
                 => UNCHANGED <<policy, net, took>>]_vars

\* After one exchange on each of two handles, the second being the faster, an
\* Acquire is about to return the second handle while another Acquire waits
\* for the mutex, no exchange having completed during either.
C29_Witness ==
    \E t \in Threads, u \in Threads :
        /\ kind = "lrt" /\ n = 2
        /\ pc[t] = "acq_unlock" /\ ~loc[t].stored /\ loc[t].idx = 1
        /\ pc[u] = "acq_call" /\ ~loc[u].stored
        /\ 0 < responseTime[1] /\ responseTime[1] < responseTime[0]

\* The transports of the calls that succeeded, in the order of the calls.
RECURSIVE Kept(_)
Kept(results) ==
    IF results = <<>> THEN <<>>
    ELSE IF Head(results).err # NoErr THEN Kept(Tail(results))
    ELSE <<Head(results).t>> \o Kept(Tail(results))

\* The loop of a constructor keeps the transports of the successful factory
\* calls, in order, and goes on after a failing call; the strategy gets one
\* position per transport kept.
BuildKeepsSuccesses ==
    /\ [](build.phase = "loop" =>
            /\ build.made = Kept(build.tried)
            /\ Len(build.tried) = build.i - 1)
    /\ [][(build.phase = "loop" /\ build'.phase = "done") =>
            /\ Len(build.tried) = Len(build.proxies)
            /\ n' = Len(Kept(build.tried))
            /\ transports' = Distinct(n')]_vars

\* C21: a dispatcher built by TransportRoundRobin, TransportFillHoles or
\* TransportLeastResponseTime holds one handle per descriptor whose factory
\* call succeeded, in the order of the list; a failing call is skipped and
\* construction goes on; and when every call failed, every request through
\* the dispatcher fails with the ErrNoTransports value.
C21_BuildSkipsFailures ==
    /\ BuildKeepsSuccesses
    /\ [](\A t \in Threads :
            (Constructed /\ n = 0 /\ req[t].nAcq = 1) =>
                req[t].handle = NoHandle /\ req[t].acqErr = ErrNoTransports)

\* The same, with the requests of a dispatcher on an empty list failing with
\* whatever error the policy's Acquire makes.
C21_BuildSkipsFailuresSomeError ==
    /\ BuildKeepsSuccesses
    /\ [](\A t \in Threads :
            (Constructed /\ n = 0 /\ req[t].nAcq = 1) =>
                req[t].handle = NoHandle /\ req[t].acqErr # NoErr)

\* The transport DefaultTransportFactory is said to make for a scheme.
TransportForScheme(scheme) ==
    CASE scheme = SchemeDirect -> "direct"
      [] scheme \in {SchemeHTTP, SchemeHTTPS} -> "http proxy"
      [] OTHER -> "socks5"

\* C26: DefaultTransportFactory chooses by the scheme alone - direct gives the
\* direct transport, http and https the HTTP-proxy transport, every other
\* scheme the SOCKS5 transport - and a descriptor that cannot be parsed gives
\* an error and no transport.
C26_FactoryChoosesByScheme ==
    (build.phase = "loop" /\ build.factory \in FactoryVersions) =>
        \A j \in 1..Len(build.tried) :
            LET d == build.proxies[j]
                r == build.tried[j]
            IN  IF d \in Malformed
                THEN r.err # NoErr /\ r.t = NoTransport
                ELSE r.err = NoErr /\ r.t.transport = TransportForScheme(UrlParse(d).Scheme)

\* The same for the definition with the case "direct" alone.
C26_WithDirectCase ==
    (build.phase = "loop" /\ build.factory = "with direct") =>
        \A j \in 1..Len(build.tried) :
            LET d == build.proxies[j]
                r == build.tried[j]
            IN  IF d \in Malformed
                THEN r.err # NoErr /\ r.t = NoTransport
                ELSE r.err = NoErr /\ r.t.transport = TransportForScheme(UrlParse(d).Scheme)

\* buffer[0] + ... + buffer[k - 1]
RECURSIVE BufferSum(_, _)
BufferSum(buffer, k) == IF k = 0 THEN 0 ELSE buffer[k - 1] + BufferSum(buffer, k - 1)

\* C30: with a moving-average calculator in a least-response-time policy,
\* whenever no call of the calculator is in progress its running sum is the
\* sum of the samples in its window and its count is min(N, samples fed),
\* also when exchanges complete concurrently.
C30_SumAndCountConsistent ==
    (kind = "lrt" /\ calc.type = "moving" /\ \A t \in Threads : ~InUpdate(t)) =>
        /\ calc.sum = BufferSum(calc.buffer, calc.window)
        /\ calc.count = Min(calc.window, Len(calls))

\* The same while the calls of the calculator do not overlap.
CallsOverlap == \E t \in Threads : InUpdate(t) /\ \E u \in Threads \ {t} : InUpdate(u)
C30_OneCallAtATime ==
    []~CallsOverlap => []C30_SumAndCountConsistent

\* The wrapper feeds the calculator when the wrapped exchange returns, stores
\* the value the calculator returned as the handle's estimate, and hands the
\* exchange's response and error to its caller as they are.
WrapperFeedsAndPassesThrough ==
    /\ [][\A t \in Threads :
             /\ (pc[t] = "inflight" /\ pc'[t] # "inflight") =>
                    /\ pc'[t] = "wrap_store"
                    /\ \E d \in TransportDurations(loc[t].idx) :
                          /\ calc' = CalcCall(calc, d).state
                          /\ loc'[t].est = CalcCall(calc, d).result
                    /\ loc[t].mode = "dispatch" =>
                          /\ loc'[t].resp = ExchangeResult(TransportOutcome(loc[t].idx))[1]
                          /\ loc'[t].err = ExchangeResult(TransportOutcome(loc[t].idx))[2]
             /\ (pc[t] = "wrap_store" /\ pc'[t] # "wrap_store") =>
                    /\ responseTime'[loc[t].idx] = loc[t].est
                    /\ loc[t].mode = "dispatch" =>
                          /\ req'[t].exchResp = loc[t].resp /\ loc'[t].resp = loc[t].resp
                          /\ req'[t].exchErr = loc[t].err /\ loc'[t].err = loc[t].err]_vars
    /\ [](\A t \in Threads :
             (kind = "lrt" /\ pc[t] = "disp_return" /\ req[t].nExch = 1) =>
                 /\ loc[t].resp = ExchangeResult(TransportOutcome(req[t].exchOn))[1]
                 /\ loc[t].err = ExchangeResult(TransportOutcome(req[t].exchOn))[2])

\* Every handle has an estimate stored and no store is pending or fell into
\* t's Acquire, which is about to return.
QuietAcquireOverMeasured(t) ==
    /\ kind = "lrt" /\ n >= 2
    /\ pc[t] = "acq_unlock" /\ ~loc[t].stored
    /\ \A i \in Pos : took[i] # 0
    /\ \A u \in Threads : pc[u] # "wrap_store"

\* C31: the least-response-time wrapper feeds the calculator and stores the
\* handle's estimate after every exchange that returns, with a response or with
\* an error, and passes response and error through unchanged; so the handle
\* whose exchanges fail after 50ms, while every other handle's exchanges take
\* 100ms or more, is the one a later Acquire returns.
C31_FailingFastIsSelected ==
    /\ WrapperFeedsAndPassesThrough
    /\ [](\A t \in Threads : QuietAcquireOverMeasured(t) => loc[t].idx = FailingHandle)

\* The same with the last-value calculator alone.
C31_WithLastValue ==
    /\ WrapperFeedsAndPassesThrough
    /\ [](\A t \in Threads :
             (QuietAcquireOverMeasured(t) /\ calc.type = "last") => loc[t].idx = FailingHandle)

\* C32: the duration a wrapped exchange feeds to the calculator is the reading
\* of the configured clock at the exchange's completion minus its reading at
\* the start, so with an injected clock the estimates depend on that clock
\* alone.
C32_DurationFromConfiguredClock ==
    [][\A t \in Threads :
          (pc[t] = "inflight" /\ pc'[t] = "wrap_store") =>
              loc'[t].d = (ClockNow - loc[t].start) * TickNs]_vars

\* The same when the configured clock is time.Now.
C32_WithSystemClock ==
    [][\A t \in Threads :
          (pc[t] = "inflight" /\ pc'[t] = "wrap_store" /\ ~clock.injected) =>
              /\ loc'[t].d = (ClockNow - loc[t].start) * TickNs
              /\ loc'[t].est = loc'[t].d]_vars

====
